---- MODULE Spec2Model ----
(***************************************************************************)
(* Model of the employees app: the Active Directory client (ad_service.py), *)
(* the auth, profile, employee, audit-log and OU-transfer views (views.py), *)
(* the serializers (serializers.py) and the two tables of models.py.        *)
(*                                                                         *)
(* One action is one HTTP request handled by one worker from its first to  *)
(* its last statement.  The record `last` holds what the last completed    *)
(* request was given, which directory calls it made and what it answered.  *)
(***************************************************************************)
EXTENDS Integers, Sequences, FiniteSets, TLC

VARIABLES
    employees,   \* rows of table `employees` (models.Employee)
    users,       \* rows of auth_user (django.contrib.auth.models.User), in insertion order
    audit,       \* rows of OutTransferLog, in insertion order
    tokens,      \* token pairs issued by RefreshToken.for_user, in order of issue
    blacklist,   \* rows of the refresh-token blacklist: indices into tokens
    dirUp,       \* the directory server answers
    dirDN,       \* directory: sAMAccountName -> distinguished name of the entry (its RDNs)
    last,        \* the last completed request
    inflight     \* requests being handled step by step (SpecRace, SpecTransferRace)

vars == <<employees, users, audit, tokens, blacklist, dirUp, dirDN, last, inflight>>

----------------------------------------------------------------------------
(* Bounds of the exploration *)

MaxTokens == 2      \* token pairs issued in one behaviour
MaxAudit == 3       \* audit rows in the table when SpecAudit starts

----------------------------------------------------------------------------
(* Configuration and fixed data *)

None == "None"

\* AD_SERVICE_USER / AD_SERVICE_PASSWORD of the environment
SvcUser == "svc"
SvcPassword == "ps"

\* Accounts the directory knows, with the password each binds with.
DirPassword == [alice |-> "pa", root |-> "pr", ghost |-> "pg", svc |-> "ps"]

\* A string that holds a distinguished name is a sequence of pieces: the
\* separator ",", the escape character "\\", an attribute marker ("CN=", "OU=",
\* "DC=") or a run of other characters.  The value of an RDN is such a sequence
\* too, as the directory stores it (not escaped).
RDN(t, v) == [t |-> t, v |-> <<v>>]

\* self.base_dn = 'DC=example,DC=local'
base_dn == <<RDN("DC", "example"), RDN("DC", "local")>>

\* choices of TransferOURequestSerializer.new_ou
OU_CHOICES == {"Accountant", "Administrative Affairs", "Camera", "Exhibit",
               "HR", "IT", "Audit", "Out Work", "Projects", "Sales",
               "Supplies", "Secretarial"}

\* columns of OutTransferLog (with the automatic primary key)
OutTransferLogFields ==
    {"id", "employee", "from_ou", "to_ou", "tranferred_by", "transfer_date", "note"}

\* Meta.fields of OutTransferLogSerializer, and the one field it declares itself
OutTransferLogSerializerFields ==
    {"employee", "employee_name", "from_ou", "to_ou", "transferred_by", "transfer_date", "note"}
OutTransferLogSerializerDeclared == {"employee_name"}

----------------------------------------------------------------------------
(* ADService *)

\* one call made to the directory: a bind that succeeded or not, a search that
\* returned an entry or not, a modify_dn the directory performed or not
Call(op, who, pw, ok) == [op |-> op, as |-> who, pw |-> pw, ok |-> ok]

\* get_connection: the connection object, or None; here whether the bind succeeded.
\* A refused bind, an unknown principal and an unreachable server all give None.
get_connection(username, password) ==
    /\ dirUp
    /\ username \in DOMAIN DirPassword
    /\ password # ""
    /\ DirPassword[username] = password

\* mutant: the account is enough, the password is not checked
authenticate_user_any_password(username, password) ==
    dirUp /\ username \in DOMAIN DirPassword

\* authenticate_user
authenticate_user(username, password) == get_connection(username, password)

\* mutant: the connection is left bound
authenticate_user_leaks(username, password, conn) ==
    <<Call("bind", username, password, conn)>>

\* the directory calls of authenticate_user: the bind of get_connection and, when
\* it gave a connection, conn.unbind()
authenticate_user_calls(username, password, conn) ==
    IF conn
    THEN <<Call("bind", username, password, TRUE), Call("unbind", username, password, TRUE)>>
    ELSE <<Call("bind", username, password, FALSE)>>

\* the value of an RDN as a DN string carries it: a comma is escaped
RECURSIVE escape(_)
escape(v) ==
    IF v = <<>> THEN <<>>
    ELSE (IF Head(v) = "," THEN <<"\\", ",">> ELSE <<Head(v)>>) \o escape(Tail(v))

rdn_str(r) == <<r.t \o "=">> \o escape(r.v)

\* str(entry.distinguishedName): the RDNs joined with ","
RECURSIVE dn_str(_)
dn_str(dn) ==
    IF dn = <<>> THEN <<>>
    ELSE IF Len(dn) = 1 THEN rdn_str(dn[1])
    ELSE rdn_str(dn[1]) \o <<",">> \o dn_str(Tail(dn))

\* str.split(sep)
RECURSIVE split(_, _)
split(str, sep) ==
    LET at == {i \in 1..Len(str) : str[i] = sep}
        i == CHOOSE k \in at : \A j \in at : k <= j
    IN IF at = {} THEN <<str>>
       ELSE <<SubSeq(str, 1, i - 1)>> \o split(SubSeq(str, i + 1, Len(str)), sep)

\* str.startswith(prefix)
startswith(str, prefix) == str # <<>> /\ str[1] = prefix

\* str.replace(old, '')
replace(str, old) == SelectSeq(str, LAMBDA a : a # old)

\* _extract_ou
extract_ou(dn) ==
    LET parts == split(dn, ",")
        sel == SelectSeq(parts, LAMBDA p : startswith(p, "OU="))
        ous == [i \in 1..Len(sel) |-> replace(sel[i], "OU=")]
    IN IF Len(ous) > 0 THEN ous[1] ELSE <<"Unknown">>

NoInfo == [found |-> FALSE, cn |-> <<>>, ou |-> <<>>, distinguished_name |-> <<>>]

Truthy(v) == v # None /\ v # ""

\* get_user_info.  searchOK = FALSE: conn.search raises.  The result carries the
\* dictionary (found = FALSE for None) and the directory calls made.
get_user_info(username, admin_username, admin_password, searchOK) ==
    LET useAdmin == Truthy(admin_username) /\ Truthy(admin_password)
        who == IF useAdmin THEN admin_username ELSE SvcUser
        pw == IF useAdmin THEN admin_password ELSE SvcPassword
        conn == get_connection(who, pw)
        bind == Call("bind", who, pw, conn)
        hit == searchOK /\ username \in DOMAIN dirDN /\ dirDN[username] # <<>>
        rest == <<Call("search", who, pw, hit), Call("unbind", who, pw, TRUE)>>
    IN IF ~conn THEN [info |-> NoInfo, calls |-> <<bind>>]
       ELSE IF hit
            THEN [info |-> [found |-> TRUE,
                            cn |-> dirDN[username][1].v,
                            ou |-> extract_ou(dn_str(dirDN[username])),
                            distinguished_name |-> dn_str(dirDN[username])],
                  calls |-> <<bind>> \o rest]
            ELSE [info |-> NoInfo, calls |-> <<bind>> \o rest]

MoveOutcomes == {"ok", "rejected", "raises"}

\* mutant: the move binds with the service account
move_bind_as_service(admin_username, admin_password) ==
    [who |-> SvcUser, pw |-> SvcPassword]

\* the credentials move_user_to_ou binds its connection with
move_bind_as(admin_username, admin_password) ==
    [who |-> admin_username, pw |-> admin_password]

\* mutant: the move goes on without a connection
move_refused_never(conn) == FALSE

\* `if not conn: return False, "Failed to connect to AD"`
move_refused(conn) == ~conn

\* mutant: the new parent is OU=New under the target unit
move_new_superior_swapped(new_ou) == <<RDN("OU", "New"), RDN("OU", new_ou)>> \o base_dn

\* new_superior = f'OU={new_ou},OU=New,{self.base_dn}'
move_new_superior(new_ou) == <<RDN("OU", new_ou), RDN("OU", "New")>> \o base_dn

\* move_user_to_ou.  mv is what the directory does with modify_dn.  The result
\* carries (success, message), the directory calls and the directory afterwards.
move_user_to_ou(username, new_ou, admin_username, admin_password, searchOK, mv) ==
    LET as == move_bind_as(admin_username, admin_password)
        conn == get_connection(as.who, as.pw)
        bind == Call("bind", as.who, as.pw, conn)
        unbind == Call("unbind", as.who, as.pw, TRUE)
        user_info == get_user_info(username, admin_username, admin_password, searchOK)
        old_dn == user_info.info.distinguished_name
        cn == user_info.info.cn
        new_superior == move_new_superior(new_ou)
        modify == Call("modify_dn", as.who, as.pw, mv = "ok")
    IN IF move_refused(conn)
       THEN [success |-> FALSE, message |-> "Failed to connect to AD",
             calls |-> <<bind>>, dn |-> dirDN]
       ELSE IF ~user_info.info.found
       THEN [success |-> FALSE, message |-> "User not found",
             calls |-> <<bind>> \o user_info.calls \o <<unbind>>, dn |-> dirDN]
       ELSE IF mv = "ok"
       THEN [success |-> TRUE, message |-> "User moved successfully",
             calls |-> <<bind>> \o user_info.calls \o <<modify, unbind>>,
             dn |-> [dirDN EXCEPT ![username] = <<[t |-> "CN", v |-> cn]>> \o new_superior]]
       ELSE [success |-> FALSE,
             message |-> IF mv = "rejected" THEN "Failed to move user" ELSE "Error",
             calls |-> <<bind>> \o user_info.calls \o <<modify, unbind>>, dn |-> dirDN]

----------------------------------------------------------------------------
(* Tables *)

Employee(id, username, name) ==
    [employee_id |-> id, ad_username |-> username, full_en_name |-> name]

\* Employee.objects.get(<field>=value): the matching rows (unique columns: 0 or 1)
EmployeeBy(field, value) == {e \in employees : e[field] = value}

\* mutant: a row is created as staff
get_or_create_staff(rows, username) ==
    IF \E i \in 1..Len(rows) : rows[i].username = username
    THEN rows
    ELSE Append(rows, [username |-> username, is_staff |-> TRUE])

\* mutant: a row is created at every login
get_or_create_always(rows, username) ==
    Append(rows, [username |-> username, is_staff |-> FALSE])

\* User.objects.get_or_create(username=username, defaults={'is_staff': False})
get_or_create(rows, username) ==
    IF \E i \in 1..Len(rows) : rows[i].username = username
    THEN rows
    ELSE Append(rows, [username |-> username, is_staff |-> FALSE])

UserRows(username) == {i \in 1..Len(users) : users[i].username = username}

is_staff(username) == \E i \in UserRows(username) : users[i].is_staff

\* Model.objects.create(**kwargs): a keyword that is no field of the model makes
\* Model.__init__ raise TypeError, and nothing is saved.
objects_create(fields, rows, kwargs) ==
    IF DOMAIN kwargs \subseteq fields
    THEN [raised |-> FALSE, rows |-> Append(rows, kwargs)]
    ELSE [raised |-> TRUE, rows |-> rows]

\* ModelSerializer(instance).data: every name of Meta.fields must be a field of
\* the model or declared on the serializer, else ImproperlyConfigured is raised.
SerializerRaises(metaFields, declared, modelFields) ==
    ~(metaFields \subseteq (modelFields \cup declared))

----------------------------------------------------------------------------
(* Session credentials *)

TokenIds == 1..Len(tokens)

NoCred == 0

\* The request's Bearer access credential is accepted: it was issued, has not
\* expired and its user exists.  The blacklist is not consulted.
AccessAccepted(cred) ==
    /\ cred \in TokenIds
    /\ tokens[cred].accessLive
    /\ UserRows(tokens[cred].user) # {}

\* request.user.username, None for an anonymous request
RequestUser(cred) == IF AccessAccepted(cred) THEN tokens[cred].user ELSE None

Blacklisted(t) == \E i \in 1..Len(blacklist) : blacklist[i] = t

\* RefreshToken(token): verification passes (no TokenError).  The refresh
\* credential is long-lived: its own expiry is beyond the behaviours explored.
RefreshVerifies(t) ==
    /\ t \in TokenIds
    /\ ~Blacklisted(t)

\* token.blacklist(): BlacklistedToken.objects.get_or_create(token=...)
blacklist_token(rows, t) == IF \E i \in 1..Len(rows) : rows[i] = t THEN rows ELSE Append(rows, t)

----------------------------------------------------------------------------
(* Requests *)

NoMove == [ran |-> FALSE, success |-> FALSE, message |-> ""]

Request(op, cred, arg) == [op |-> op, cred |-> cred, actor |-> RequestUser(cred), arg |-> arg]

\* what a completed request leaves in `last`; created is the number of audit
\* rows the request added (negative: removed)
Done(req, status, msg, calls, move, body) ==
    [op |-> req.op, cred |-> req.cred, actor |-> req.actor, arg |-> req.arg,
     status |-> status, msg |-> msg, calls |-> calls, move |-> move, body |-> body,
     created |-> 0]

EmptyDict == <<>>

\* permission_classes = [IsAuthenticated] / [IsAdminUser]: the status of the
\* refusal, 0 when the request is let through
IsAuthenticated(cred) == IF AccessAccepted(cred) THEN 0 ELSE 401

IsAdminUser(cred) ==
    IF ~AccessAccepted(cred) THEN 401
    ELSE IF is_staff(RequestUser(cred)) THEN 0 ELSE 403

----------------------------------------------------------------------------
(* OUTransferView.post *)

\* mutant: new_ou is a free-text field
TransferOURequestValid_AnyOU(data) == data.admin_password # ""

\* TransferOURequestSerializer.is_valid(): new_ou is one of the choices and
\* admin_password is present and not blank
TransferOURequestValid(data) ==
    /\ data.new_ou \in OU_CHOICES
    /\ data.admin_password # ""

\* mutant: the handler goes on to the move without the current attributes
fetch_failed_ignored(current_info) == FALSE

\* `if not current_info:`
fetch_failed(current_info) == ~current_info.info.found

\* The handler from `current_ou = current_info['ou']` on: the move, the audit
\* row and the response.  s2: the search of the move answers; mv: what the
\* directory does with modify_dn.  The result is the new directory, the new
\* audit table and the completed request.
TransferAfterFetch(req, employee, data, current_info, s2, mv) ==
    LET current_ou == current_info.info.ou
        m == move_user_to_ou(employee.ad_username, data.new_ou, req.actor,
                             data.admin_password, s2, mv)
        move == [ran |-> TRUE, success |-> m.success, message |-> m.message]
        calls == current_info.calls \o m.calls
        created == objects_create(OutTransferLogFields, audit,
                       [employee |-> employee.employee_id,
                        from_ou |-> current_ou,
                        to_ou |-> data.new_ou,
                        transferred_by |-> req.actor,
                        notes |-> data.notes,
                        success |-> m.success])
    IN IF created.raised
       THEN [dn |-> m.dn, rows |-> created.rows,
             done |-> Done(req, 500, "TypeError", calls, move, EmptyDict)]
       ELSE IF ~m.success
       THEN [dn |-> m.dn, rows |-> created.rows,
             done |-> Done(req, 400, m.message, calls, move, EmptyDict)]
       ELSE IF SerializerRaises(OutTransferLogSerializerFields,
                                OutTransferLogSerializerDeclared, OutTransferLogFields)
       THEN [dn |-> m.dn, rows |-> created.rows,
             done |-> Done(req, 500, "ImproperlyConfigured", calls, move, EmptyDict)]
       ELSE [dn |-> m.dn, rows |-> created.rows,
             done |-> Done(req, 200, m.message, calls, move,
                           created.rows[Len(created.rows)])]

\* The handler after the permission check.  s1: the search of the fetch answers.
TransferOutcome(req, employee_id, data, s1, s2, mv) ==
    LET found == EmployeeBy("employee_id", employee_id)
        employee == CHOOSE e \in found : TRUE
        current_info == get_user_info(employee.ad_username, None, None, s1)
        keep == [dn |-> dirDN, rows |-> audit]
    IN IF found = {}
       THEN keep @@ [done |-> Done(req, 404, "Employee not found", <<>>, NoMove, EmptyDict)]
       ELSE IF ~TransferOURequestValid(data)
       THEN keep @@ [done |-> Done(req, 400, "invalid request body", <<>>, NoMove, EmptyDict)]
       ELSE IF fetch_failed(current_info)
       THEN keep @@ [done |-> Done(req, 500, "Could not fetch current AD information",
                                   current_info.calls, NoMove, EmptyDict)]
       ELSE TransferAfterFetch(req, employee, data, current_info, s2, mv)

OUTransferView_post(cred, employee_id, data, s1, s2, mv) ==
    LET req == Request("transfer", cred, [employee_id |-> employee_id, data |-> data])
        denied == IsAdminUser(cred)
        out == TransferOutcome(req, employee_id, data, s1, s2, mv)
    IN /\ IF denied # 0
          THEN /\ last' = Done(req, denied, "permission denied", <<>>, NoMove, EmptyDict)
               /\ UNCHANGED <<dirDN, audit>>
          ELSE /\ last' = [out.done EXCEPT !.created = Len(out.rows) - Len(audit)]
               /\ dirDN' = out.dn
               /\ audit' = out.rows
       /\ UNCHANGED <<employees, users, tokens, blacklist, dirUp, inflight>>

----------------------------------------------------------------------------
(* LoginView.post *)

\* LoginSerializer.is_valid(): both fields present and not blank
LoginValid(username, password) == username # "" /\ password # ""

\* mutant: the identity row is made before the handler decides to refuse
login_refused_rows_created(rows, username) == get_or_create(rows, username)

\* auth_user when the handler returns before `User.objects.get_or_create`
\* (the 400, 401 and 404 endings): as it was
login_refused_rows(rows, username) == rows

LoginOutcome(req, username, password) ==
    LET ok == authenticate_user(username, password)
        calls == authenticate_user_calls(username, password, ok)
        found == EmployeeBy("ad_username", username)
        employee == CHOOSE e \in found : TRUE
        rows == get_or_create(users, username)
        refresh == [user |-> username, accessLive |-> TRUE]
        keep == [users |-> login_refused_rows(users, username), tokens |-> tokens]
    IN IF ~LoginValid(username, password)
       THEN keep @@ [done |-> Done(req, 400, "invalid request body", <<>>, NoMove, EmptyDict)]
       ELSE IF ~ok
       THEN keep @@ [done |-> Done(req, 401, "Invalid credentials", calls, NoMove, EmptyDict)]
       ELSE IF found = {}
       THEN keep @@ [done |-> Done(req, 404, "Employee record not found in database",
                                   calls, NoMove, EmptyDict)]
       ELSE [users |-> rows, tokens |-> Append(tokens, refresh),
             done |-> Done(req, 200, "", calls, NoMove,
                           [access |-> Len(tokens) + 1, refresh |-> Len(tokens) + 1,
                            user |-> [username |-> username,
                                      employee_id |-> employee.employee_id,
                                      full_name |-> employee.full_en_name]])]

LoginView_post(username, password) ==
    LET req == [op |-> "login", cred |-> NoCred, actor |-> None,
                arg |-> [username |-> username, password |-> password]]
        out == LoginOutcome(req, username, password)
    IN /\ Len(out.tokens) <= MaxTokens
       /\ last' = out.done
       /\ users' = out.users
       /\ tokens' = out.tokens
       /\ UNCHANGED <<employees, audit, blacklist, dirUp, dirDN, inflight>>

----------------------------------------------------------------------------
(* LogoutView.post and the token refresh endpoint *)

\* mutant: the token is taken as presented, without verification
logout_verifies_unchecked(refresh_token) == refresh_token \in TokenIds

\* `token = RefreshToken(refresh_token)` does not raise
logout_verifies(refresh_token) == RefreshVerifies(refresh_token)

\* mutant: the handler answers without calling token.blacklist()
logout_blacklists_nothing(rows, refresh_token) == rows

\* `token.blacklist()`
logout_blacklists(rows, refresh_token) == blacklist_token(rows, refresh_token)

LogoutOutcome(req, refresh_token) ==
    IF logout_verifies(refresh_token)
    THEN [rows |-> logout_blacklists(blacklist, refresh_token),
          done |-> Done(req, 200, "Successfully logged out", <<>>, NoMove, EmptyDict)]
    ELSE [rows |-> blacklist,
          done |-> Done(req, 400, "TokenError", <<>>, NoMove, EmptyDict)]

LogoutView_post(cred, refresh_token) ==
    LET req == Request("logout", cred, [refresh |-> refresh_token])
        denied == IsAuthenticated(cred)
        out == LogoutOutcome(req, refresh_token)
    IN /\ IF denied # 0
          THEN /\ last' = Done(req, denied, "permission denied", <<>>, NoMove, EmptyDict)
               /\ UNCHANGED blacklist
          ELSE /\ last' = out.done
               /\ blacklist' = out.rows
       /\ UNCHANGED <<employees, users, audit, tokens, dirUp, dirDN, inflight>>

\* path('auth/token/refresh/', TokenRefreshView.as_view())
TokenRefreshView_post(refresh_token) ==
    LET req == [op |-> "refresh", cred |-> NoCred, actor |-> None,
                arg |-> [refresh |-> refresh_token]]
    IN /\ last' = IF RefreshVerifies(refresh_token)
                  THEN Done(req, 200, "", <<>>, NoMove, [access |-> refresh_token])
                  ELSE Done(req, 401, "TokenError", <<>>, NoMove, EmptyDict)
       /\ UNCHANGED <<employees, users, audit, tokens, blacklist, dirUp, dirDN, inflight>>

----------------------------------------------------------------------------
(* EmployeeProfileView.get *)

\* the dictionary get_user_info returns
InfoDict(info) ==
    [cn |-> info.cn, ou |-> info.ou, distinguished_name |-> info.distinguished_name]

\* mutant: a failed directory fetch is reported inside the profile
profile_ad_info_error(ad_info) ==
    IF ad_info.info.found THEN InfoDict(ad_info.info) ELSE [error |-> "AD unavailable"]

\* `ad_info if ad_info else {}`
profile_ad_info(ad_info) ==
    IF ad_info.info.found THEN InfoDict(ad_info.info) ELSE EmptyDict

ProfileOutcome(req, searchOK) ==
    LET username == req.actor
        found == EmployeeBy("ad_username", username)
        employee == CHOOSE e \in found : TRUE
        ad_info == get_user_info(username, None, None, searchOK)
    IN IF found = {}
       THEN Done(req, 404, "Employee record not found", <<>>, NoMove, EmptyDict)
       ELSE Done(req, 200, "", ad_info.calls, NoMove,
                 [database_info |-> employee,
                  ad_info |-> profile_ad_info(ad_info)])

EmployeeProfileView_get(cred, searchOK) ==
    LET req == Request("profile", cred, EmptyDict)
        denied == IsAuthenticated(cred)
    IN /\ last' = IF denied # 0
                  THEN Done(req, denied, "permission denied", <<>>, NoMove, EmptyDict)
                  ELSE ProfileOutcome(req, searchOK)
       /\ UNCHANGED <<employees, users, audit, tokens, blacklist, dirUp, dirDN, inflight>>

----------------------------------------------------------------------------
(* EmployeeViewSet.destroy *)

\* mutant: deleting an employee empties the audit table
cascade_everything(rows, pk) == <<>>

\* employee = ForeignKey(Employee, on_delete=models.CASCADE): the audit rows
\* left when employee pk is deleted
cascade(rows, pk) == SelectSeq(rows, LAMBDA r : r.employee # pk)

EmployeeViewSet_destroy(cred, pk) ==
    LET req == Request("destroy", cred, [pk |-> pk])
        denied == IsAdminUser(cred)
        found == EmployeeBy("employee_id", pk)
    IN /\ IF denied # 0
          THEN /\ last' = Done(req, denied, "permission denied", <<>>, NoMove, EmptyDict)
               /\ UNCHANGED <<employees, audit>>
          ELSE IF found = {}
          THEN /\ last' = Done(req, 404, "Not found", <<>>, NoMove, EmptyDict)
               /\ UNCHANGED <<employees, audit>>
          ELSE /\ last' = [Done(req, 204, "", <<>>, NoMove, EmptyDict)
                               EXCEPT !.created = Len(cascade(audit, pk)) - Len(audit)]
               /\ employees' = employees \ found
               /\ audit' = cascade(audit, pk)
       /\ UNCHANGED <<users, tokens, blacklist, dirUp, dirDN, inflight>>

----------------------------------------------------------------------------
(* The world outside the program *)

\* the directory server goes away or comes back
DirectoryFlips ==
    /\ dirUp' = ~dirUp
    /\ UNCHANGED <<employees, users, audit, tokens, blacklist, dirDN, last, inflight>>

\* an access credential reaches its expiry
AccessExpires(t) ==
    /\ t \in TokenIds
    /\ tokens[t].accessLive
    /\ tokens' = [tokens EXCEPT ![t].accessLive = FALSE]
    /\ UNCHANGED <<employees, users, audit, blacklist, dirUp, dirDN, last, inflight>>

----------------------------------------------------------------------------
(* Inputs explored *)

LoginNames == {"alice", "root", "ghost", "nobody", ""}

PasswordsFor(username) ==
    {IF username \in DOMAIN DirPassword THEN DirPassword[username] ELSE "px", "bad", ""}

EmployeeIds == {"EMP1", "EMP3", "EMP9"}

TransferData ==
    [new_ou : {"HR", "Bogus"}, admin_password : {"pr", "bad", ""}, notes : {""}]

Creds == 0..MaxTokens

----------------------------------------------------------------------------
(* Specification: requests handled one at a time *)

Idle == [op |-> "none", cred |-> NoCred, actor |-> None, arg |-> EmptyDict,
         status |-> 0, msg |-> "", calls |-> <<>>, move |-> NoMove, body |-> EmptyDict,
         created |-> 0]

\* EMP3's ad_username has no entry in the directory
Roster == {Employee("EMP1", "alice", "Alice A"), Employee("EMP2", "root", "Root R"),
           Employee("EMP3", "bob", "Bob B")}

Init ==
    /\ employees = Roster
    /\ users = <<[username |-> "root", is_staff |-> TRUE]>>
    /\ audit = <<>>
    /\ tokens = <<>>
    /\ blacklist = <<>>
    /\ dirUp = TRUE
    /\ dirDN = [alice |-> <<RDN("CN", "alice"), RDN("OU", "Sales"), RDN("OU", "New")>> \o base_dn,
                root  |-> <<RDN("CN", "root"), RDN("CN", "Users")>> \o base_dn,
                ghost |-> <<RDN("CN", "ghost"), RDN("OU", "IT"), RDN("OU", "New")>> \o base_dn]
    /\ last = Idle
    /\ inflight = <<>>

\* requests of the session endpoints
AuthRequest ==
    \/ \E u \in LoginNames : \E p \in PasswordsFor(u) : LoginView_post(u, p)
    \/ \E c \in Creds, t \in Creds : LogoutView_post(c, t)
    \/ \E t \in Creds : TokenRefreshView_post(t)

ProfileRequest == \E c \in Creds, s \in BOOLEAN : EmployeeProfileView_get(c, s)

DestroyRequest == \E c \in Creds, id \in EmployeeIds : EmployeeViewSet_destroy(c, id)

\* requests of the OU-transfer endpoint
TransferRequest ==
    \E c \in Creds, id \in EmployeeIds, d \in TransferData, s1, s2 \in BOOLEAN,
       mv \in MoveOutcomes : OUTransferView_post(c, id, d, s1, s2, mv)

Expiry == \E t \in Creds : AccessExpires(t)

Next ==
    \/ AuthRequest
    \/ ProfileRequest
    \/ DestroyRequest
    \/ TransferRequest
    \/ DirectoryFlips
    \/ Expiry

Spec == Init /\ [][Next]_vars

\* The session endpoints and the profile, from the state after construction.
NextAuth ==
    \/ AuthRequest
    \/ ProfileRequest
    \/ DirectoryFlips
    \/ Expiry

SpecAuth == Init /\ [][NextAuth]_vars

\* The state once root (staff) and alice (not staff) have logged in:
\* credential 1 is root's, credential 2 is alice's.
InitSessions ==
    /\ employees = Roster
    /\ users = <<[username |-> "root", is_staff |-> TRUE],
                 [username |-> "alice", is_staff |-> FALSE]>>
    /\ audit = <<>>
    /\ tokens = <<[user |-> "root", accessLive |-> TRUE],
                  [user |-> "alice", accessLive |-> TRUE]>>
    /\ blacklist = <<>>
    /\ dirUp = TRUE
    /\ dirDN = [alice |-> <<RDN("CN", "alice"), RDN("OU", "Sales"), RDN("OU", "New")>> \o base_dn,
                root  |-> <<RDN("CN", "root"), RDN("CN", "Users")>> \o base_dn,
                ghost |-> <<RDN("CN", "ghost"), RDN("OU", "IT"), RDN("OU", "New")>> \o base_dn]
    /\ last = Idle
    /\ inflight = <<>>

\* The employee endpoints (profile, delete, OU transfer) with those sessions.
NextApp ==
    \/ ProfileRequest
    \/ DestroyRequest
    \/ TransferRequest
    \/ DirectoryFlips

SpecApp == InitSessions /\ [][NextApp]_vars

----------------------------------------------------------------------------
(* Logout and refresh handled by concurrent workers.  A worker runs a handler
   statement by statement; the statements that read or write the revocation
   set are the steps. *)

MaxWorkers == 2

Workers == 1..MaxWorkers

Free == [op |-> "none", cred |-> NoCred, refresh |-> NoCred, revoked_at_begin |-> FALSE]

RaceArg(w, revoked_now) ==
    [refresh |-> inflight[w].refresh,
     revoked_at_begin |-> inflight[w].revoked_at_begin,
     revoked_at_insert |-> revoked_now]

\* LogoutView.post up to `token = RefreshToken(refresh_token)`
LogoutVerify(w, cred, refresh_token) ==
    LET req == Request("logout", cred,
                       [refresh |-> refresh_token,
                        revoked_at_begin |-> Blacklisted(refresh_token),
                        revoked_at_insert |-> FALSE])
        denied == IsAuthenticated(cred)
    IN /\ inflight[w] = Free
       /\ IF denied # 0
          THEN /\ last' = Done(req, denied, "permission denied", <<>>, NoMove, EmptyDict)
               /\ UNCHANGED inflight
          ELSE IF ~logout_verifies(refresh_token)
          THEN /\ last' = Done(req, 400, "TokenError", <<>>, NoMove, EmptyDict)
               /\ UNCHANGED inflight
          ELSE /\ inflight' = [inflight EXCEPT ![w] =
                                  [op |-> "logout", cred |-> cred, refresh |-> refresh_token,
                                   revoked_at_begin |-> Blacklisted(refresh_token)]]
               /\ UNCHANGED last
       /\ UNCHANGED <<employees, users, audit, tokens, blacklist, dirUp, dirDN>>

\* LogoutView.post from `token.blacklist()` to the response
LogoutBlacklist(w) ==
    /\ inflight[w].op = "logout"
    /\ blacklist' = logout_blacklists(blacklist, inflight[w].refresh)
    /\ last' = Done(Request("logout", inflight[w].cred,
                            RaceArg(w, Blacklisted(inflight[w].refresh))),
                    200, "Successfully logged out", <<>>, NoMove, EmptyDict)
    /\ inflight' = [inflight EXCEPT ![w] = Free]
    /\ UNCHANGED <<employees, users, audit, tokens, dirUp, dirDN>>

\* a worker takes a refresh request
RefreshBegin(w, refresh_token) ==
    /\ inflight[w] = Free
    /\ inflight' = [inflight EXCEPT ![w] =
                       [op |-> "refresh", cred |-> NoCred, refresh |-> refresh_token,
                        revoked_at_begin |-> Blacklisted(refresh_token)]]
    /\ UNCHANGED <<employees, users, audit, tokens, blacklist, dirUp, dirDN, last>>

\* the refresh endpoint verifies the credential and answers
RefreshVerify(w) ==
    LET t == inflight[w].refresh
        req == [op |-> "refresh", cred |-> NoCred, actor |-> None,
                arg |-> RaceArg(w, Blacklisted(t))]
    IN /\ inflight[w].op = "refresh"
       /\ last' = IF RefreshVerifies(t)
                  THEN Done(req, 200, "", <<>>, NoMove, [access |-> t])
                  ELSE Done(req, 401, "TokenError", <<>>, NoMove, EmptyDict)
       /\ inflight' = [inflight EXCEPT ![w] = Free]
       /\ UNCHANGED <<employees, users, audit, tokens, blacklist, dirUp, dirDN>>

InitRace ==
    /\ employees = Roster
    /\ users = <<[username |-> "root", is_staff |-> TRUE],
                 [username |-> "alice", is_staff |-> FALSE]>>
    /\ audit = <<>>
    /\ tokens = <<[user |-> "root", accessLive |-> TRUE],
                  [user |-> "alice", accessLive |-> TRUE]>>
    /\ blacklist = <<>>
    /\ dirUp = TRUE
    /\ dirDN = [alice |-> <<RDN("CN", "alice"), RDN("OU", "Sales"), RDN("OU", "New")>> \o base_dn,
                root  |-> <<RDN("CN", "root"), RDN("CN", "Users")>> \o base_dn,
                ghost |-> <<RDN("CN", "ghost"), RDN("OU", "IT"), RDN("OU", "New")>> \o base_dn]
    /\ last = Idle
    /\ inflight = [w \in Workers |-> Free]

NextRace ==
    \/ \E w \in Workers, c \in Creds, t \in Creds : LogoutVerify(w, c, t)
    \/ \E w \in Workers : LogoutBlacklist(w)
    \/ \E w \in Workers, t \in Creds : RefreshBegin(w, t)
    \/ \E w \in Workers : RefreshVerify(w)

SpecRace == InitRace /\ [][NextRace]_vars

----------------------------------------------------------------------------
(* OU Transfer Workflow: properties, checked under SpecApp *)

IsTransfer == last.op = "transfer"

\* the last request was a transfer that got past permission, lookup and validation
\* and asked the directory for the employee's current attributes
Fetched == IsTransfer /\ last.calls # <<>>

\* ... and that fetch returned absent: the service bind or the search gave nothing
FetchAbsent == Fetched /\ (~last.calls[1].ok \/ ~last.calls[2].ok)

ModifyCalls == {i \in 1..Len(last.calls) : last.calls[i].op = "modify_dn"}

\* C1: a transfer request that resolved the employee, passed validation and fetched
\* the current attributes has persisted exactly one audit row when it ends, and
\* the row's success flag is the outcome the directory move reported.
C1_OneAuditRecordPerAttempt ==
    (IsTransfer /\ last.move.ran) =>
        /\ last.created = 1
        /\ audit[Len(audit)].success = last.move.success

\* C2: a transfer request whose target OU is not one of the enumerated units is
\* answered with a client error, 400 once the employee is resolved, without a
\* single directory call and without an audit row.
C2_UnknownOURejectedBeforeDirectory ==
    (IsTransfer /\ last.arg.data.new_ou \notin OU_CHOICES) =>
        /\ last.status \in {400, 401, 403, 404}
        /\ (last.status \notin {401, 403}
              /\ EmployeeBy("employee_id", last.arg.employee_id) # {}
            => last.status = 400)
        /\ last.calls = <<>>
        /\ ~last.move.ran
        /\ last.created = 0

C2_Witness ==
    /\ IsTransfer
    /\ last.arg.data.new_ou \notin OU_CHOICES
    /\ last.arg.data.admin_password = "pr"
    /\ is_staff(last.actor)
    /\ last.status = 400

\* C3: when the fetch of the current attributes returns absent the request ends
\* with the 'Could not fetch current AD information' outcome, which no other
\* path gives; the move is not invoked (no admin bind, no modify_dn) and no
\* audit row is written.
C3_FetchAbsentAborts ==
    /\ FetchAbsent =>
        /\ last.status = 500
        /\ last.msg = "Could not fetch current AD information"
        /\ ~last.move.ran
        /\ \A i \in 1..Len(last.calls) :
              last.calls[i].as = SvcUser /\ last.calls[i].op # "modify_dn"
        /\ last.created = 0
    /\ (IsTransfer /\ last.msg = "Could not fetch current AD information") => FetchAbsent

\* the search answered with zero matches
C3_Witness ==
    /\ FetchAbsent
    /\ last.calls[1].ok
    /\ last.arg.employee_id = "EMP3"
    /\ last.status = 500

\* C4: every modify_dn of a transfer is issued on a connection whose bind, with the
\* acting admin's username and the password of the request, succeeded; when
\* that bind fails there is no modify_dn and the move reports failure.
C4_MoveBoundAsActingAdmin ==
    (IsTransfer /\ last.move.ran) =>
        /\ \A i \in ModifyCalls :
              /\ last.calls[i].as = last.actor
              /\ last.calls[i].pw = last.arg.data.admin_password
              /\ last.calls[i].as # SvcUser
              /\ \E j \in 1..(i - 1) :
                    /\ last.calls[j].op = "bind"
                    /\ last.calls[j].ok
                    /\ last.calls[j].as = last.actor
                    /\ last.calls[j].pw = last.arg.data.admin_password
        /\ (\E j \in 1..Len(last.calls) :
               last.calls[j].op = "bind" /\ last.calls[j].as # SvcUser /\ ~last.calls[j].ok)
           => (ModifyCalls = {} /\ ~last.move.success)
        /\ \A j \in 1..Len(last.calls) :
              last.calls[j].op = "bind" /\ last.calls[j].as # SvcUser
              => last.calls[j].as = last.actor /\ last.calls[j].pw = last.arg.data.admin_password

C4_Witness ==
    /\ IsTransfer
    /\ ModifyCalls # {}
    /\ last.move.success
    /\ dirDN["alice"][2] = RDN("OU", "HR")

\* C5: a transfer that reached the directory move answers 200 with the audit row
\* it created when the move succeeded, and 400 with the message the directory
\* client reported when it failed.
C5_MoveOutcomeResponse ==
    (IsTransfer /\ last.move.ran) =>
        IF last.move.success
        THEN /\ last.status = 200
             /\ last.created = 1
             /\ last.body = audit[Len(audit)]
        ELSE /\ last.status = 400
             /\ last.msg = last.move.message

----------------------------------------------------------------------------
(* Directory-backed login and the session credentials: properties, checked
   under SpecAuth *)

IsLogin == last.op = "login"

\* the directory has the account and the password presented is its password
DirectoryAccepts(username, password) ==
    username \in DOMAIN DirPassword /\ DirPassword[username] = password

\* C6: a login with a username and a password ends in one of three ways, decided
\* in this order: 401 'Invalid credentials' when the directory did not accept the
\* bind (the same answer for an unknown account and for a wrong password); else
\* 404 when no Employee has that ad_username; else 200 with a token pair of
\* that username's identity.
C6_LoginOutcomes ==
    (IsLogin /\ LoginValid(last.arg.username, last.arg.password)) =>
        LET u == last.arg.username
            invalid == /\ last.status = 401
                       /\ last.msg = "Invalid credentials"
                       /\ last.body = EmptyDict
        IN /\ last.calls # <<>> /\ last.calls[1].op = "bind" /\ last.calls[1].as = u
           /\ ~DirectoryAccepts(u, last.arg.password) => invalid
           /\ IF ~last.calls[1].ok THEN invalid
              ELSE IF EmployeeBy("ad_username", u) = {}
              THEN /\ last.status = 404
                   /\ last.msg = "Employee record not found in database"
                   /\ last.body = EmptyDict
              ELSE /\ last.status = 200
                   /\ last.body.refresh \in TokenIds
                   /\ last.body.access = last.body.refresh
                   /\ tokens[last.body.refresh].user = u
                   /\ UserRows(u) # {}
                   /\ last.body.user.username = u

\* directory authentication passed and there is no Employee row
C6_Witness ==
    /\ IsLogin
    /\ last.arg.username = "ghost"
    /\ last.calls[1].ok
    /\ last.status = 404

\* rows of auth_user that were there stay as they are
UsersKept == \A i \in 1..Len(users) : i <= Len(users') /\ users'[i] = users[i]

\* C7: there is never more than one identity row for a username and exactly one
\* after a successful login; a login creates a row only for a username that has
\* none, and no login changes a row that exists (its staff flag included).
C7_OneIdentityPerUsername ==
    /\ [](\A i, j \in 1..Len(users) : users[i].username = users[j].username => i = j)
    /\ []((IsLogin /\ last.status = 200) => Cardinality(UserRows(last.arg.username)) = 1)
    /\ [][/\ UsersKept
          /\ Len(users') <= Len(users) + 1
          /\ Len(users') = Len(users) + 1 =>
                /\ UserRows(users'[Len(users')].username) = {}
                /\ ~users'[Len(users')].is_staff]_vars

\* root, staff before any login, holds two token pairs and still one staff row
C7_Witness ==
    /\ Len(tokens) = 2
    /\ tokens[1].user = "root" /\ tokens[2].user = "root"
    /\ Cardinality(UserRows("root")) = 1
    /\ is_staff("root")

\* C8: a refresh credential that a logout accepted is in the revocation set and
\* stays there; a refresh request presenting a revoked credential fails; the
\* access credential of the same pair is still let through while it has not
\* expired.
C8_RevokedRefreshFails ==
    /\ []((last.op = "logout" /\ last.status = 200) => Blacklisted(last.arg.refresh))
    /\ []((last.op = "refresh" /\ Blacklisted(last.arg.refresh)) => last.status = 401)
    /\ []((last.op \in {"profile", "logout"} /\ Blacklisted(last.cred)
           /\ tokens[last.cred].accessLive) => last.status # 401)
    /\ [][\A t \in TokenIds : Blacklisted(t) => Blacklisted(t)']_vars

\* a profile read with the access credential of a revoked pair
C8_Witness ==
    /\ last.op = "profile"
    /\ Blacklisted(last.cred)
    /\ last.status = 200

----------------------------------------------------------------------------
(* Profile Assembler: property, checked under SpecApp *)

\* C10: the profile of an authenticated username with an Employee row is always
\* 200 with that row as database_info; ad_info is {} when the directory fetch
\* returned absent (server down, search failing, no entry); 404 is answered only
\* when the Employee row is missing.
C10_ProfileSurvivesDirectory ==
    (last.op = "profile" /\ last.status # 401) =>
        LET rows == EmployeeBy("ad_username", last.actor)
        IN IF rows = {}
           THEN last.status = 404 /\ last.calls = <<>>
           ELSE /\ last.status = 200
                /\ last.body.database_info \in rows
                /\ last.calls # <<>>
                /\ IF last.calls[1].ok /\ last.calls[2].ok
                   THEN /\ last.body.ad_info # EmptyDict
                        /\ last.body.ad_info.distinguished_name = dn_str(dirDN[last.actor])
                   ELSE last.body.ad_info = EmptyDict

\* the directory did not answer and the profile is served
C10_Witness ==
    /\ last.op = "profile"
    /\ last.status = 200
    /\ ~last.calls[1].ok
    /\ last.body.ad_info = EmptyDict
    /\ last.body.database_info = Employee("EMP1", "alice", "Alice A")

----------------------------------------------------------------------------
(* Revocation under concurrent requests: properties, checked under SpecRace *)

NoDoubleRevocation ==
    \A i, j \in 1..Len(blacklist) : blacklist[i] = blacklist[j] => i = j

RefreshAfterLogoutFails ==
    (last.op = "refresh" /\ last.status = 200) => ~last.arg.revoked_at_begin

\* C9 as stated: the credential is in the revocation set at most once, a logout
\* of a credential that is already revoked when the logout records it fails,
\* and no refresh that begins once the credential is revoked succeeds.
C9_SecondLogoutFails ==
    /\ NoDoubleRevocation
    /\ (last.op = "logout" /\ last.status = 200) => ~last.arg.revoked_at_insert
    /\ RefreshAfterLogoutFails

\* C9 as amended: the credential is in the revocation set at most once, a logout
\* that begins once the credential is revoked fails, and no refresh that
\* begins once the credential is revoked succeeds.
C9_LogoutAfterLogoutFails ==
    /\ NoDoubleRevocation
    /\ (last.op = "logout" /\ last.status = 200) =>
          (~last.arg.revoked_at_begin /\ Blacklisted(last.arg.refresh))
    /\ (last.op = "logout" /\ last.status # 401 /\ last.arg.revoked_at_begin) =>
          last.status = 400
    /\ RefreshAfterLogoutFails
    /\ (last.op = "refresh" /\ last.arg.revoked_at_begin) => last.status = 401

\* a logout refused because the credential was revoked by an earlier one
C9_Witness ==
    /\ last.op = "logout"
    /\ last.arg.revoked_at_begin
    /\ last.status = 400

----------------------------------------------------------------------------
(* The three methods of ADService called on their own, on directories that
   differ in where alice's entry is. *)

ADService_authenticate_user(username, password) ==
    LET ok == authenticate_user(username, password)
        req == [op |-> "authenticate_user", cred |-> NoCred, actor |-> None,
                arg |-> [username |-> username, password |-> password,
                         reachable |-> dirUp]]
    IN /\ last' = Done(req, 0, "", authenticate_user_calls(username, password, ok),
                       NoMove, [result |-> ok])
       /\ UNCHANGED <<employees, users, audit, tokens, blacklist, dirUp, dirDN, inflight>>

ADService_get_user_info(username, admin_username, admin_password, searchOK) ==
    LET r == get_user_info(username, admin_username, admin_password, searchOK)
        req == [op |-> "get_user_info", cred |-> NoCred, actor |-> None,
                arg |-> [username |-> username, admin_username |-> admin_username,
                         admin_password |-> admin_password]]
    IN /\ last' = Done(req, 0, "", r.calls, NoMove, r.info)
       /\ UNCHANGED <<employees, users, audit, tokens, blacklist, dirUp, dirDN, inflight>>

ADService_move_user_to_ou(username, new_ou, admin_username, admin_password, searchOK, mv) ==
    LET m == move_user_to_ou(username, new_ou, admin_username, admin_password, searchOK, mv)
        req == [op |-> "move_user_to_ou", cred |-> NoCred, actor |-> None,
                arg |-> [username |-> username, new_ou |-> new_ou,
                         admin_username |-> admin_username,
                         admin_password |-> admin_password,
                         reachable |-> dirUp, mv |-> mv,
                         before |-> IF username \in DOMAIN dirDN
                                    THEN dirDN[username] ELSE <<>>]]
    IN /\ last' = Done(req, 0, m.message, m.calls,
                       [ran |-> TRUE, success |-> m.success, message |-> m.message],
                       EmptyDict)
       /\ dirDN' = m.dn
       /\ UNCHANGED <<employees, users, audit, tokens, blacklist, dirUp, inflight>>

\* accounts asked about: bob has no entry
ClientNames == {"alice", "bob"}

\* the admin credentials handed to get_user_info: none, right, wrong
ClientAdmins ==
    {[username |-> None, password |-> None], [username |-> "root", password |-> "pr"],
     [username |-> "root", password |-> "bad"]}

\* where alice's entry starts: under two units, under none, under a unit whose
\* name holds a comma
ClientDNs ==
    {<<RDN("CN", "alice"), RDN("OU", "Sales"), RDN("OU", "New")>> \o base_dn,
     <<RDN("CN", "alice"), RDN("CN", "Users")>> \o base_dn,
     <<RDN("CN", "alice"), [t |-> "OU", v |-> <<"Sales", ",", " EMEA">>]>> \o base_dn}

InitClient ==
    /\ employees = Roster
    /\ users = <<[username |-> "root", is_staff |-> TRUE]>>
    /\ audit = <<>>
    /\ tokens = <<>>
    /\ blacklist = <<>>
    /\ dirUp = TRUE
    /\ \E dn \in ClientDNs :
          dirDN = [alice |-> dn,
                   root  |-> <<RDN("CN", "root"), RDN("CN", "Users")>> \o base_dn,
                   ghost |-> <<RDN("CN", "ghost"), RDN("OU", "IT"), RDN("OU", "New")>> \o base_dn]
    /\ last = Idle
    /\ inflight = <<>>

NextClient ==
    \/ \E u \in LoginNames : \E p \in PasswordsFor(u) : ADService_authenticate_user(u, p)
    \/ \E u \in ClientNames, a \in ClientAdmins, s \in BOOLEAN :
          ADService_get_user_info(u, a.username, a.password, s)
    \/ \E u \in ClientNames, ou \in {"HR", "IT"}, p \in {"pr", "bad", ""},
          s \in BOOLEAN, mv \in MoveOutcomes :
          ADService_move_user_to_ou(u, ou, "root", p, s, mv)
    \/ DirectoryFlips

SpecClient == InitClient /\ [][NextClient]_vars

----------------------------------------------------------------------------
(* Directory Client: properties, checked under SpecClient *)

C12_OUIsFirstOUComponent ==
    (last.op = "get_user_info" /\ last.body.found) =>
        LET dn == dirDN[last.arg.username]
            ous == SelectSeq(dn, LAMBDA r : r.t = "OU")
        IN last.body.ou = IF ous # <<>> THEN ous[1].v ELSE <<"Unknown">>

MoveMessages ==
    {"Failed to connect to AD", "User not found", "User moved successfully",
     "Failed to move user", "Error"}

IsMove == last.op = "move_user_to_ou"

C14_MovedEntryIsUnderNewOU ==
    (IsMove /\ last.move.success) =>
        LET a == last.arg
            fetched == get_user_info(a.username, None, None, TRUE)
        IN /\ dirDN[a.username] =
                 <<a.before[1], RDN("OU", a.new_ou), RDN("OU", "New")>> \o base_dn
           /\ a.before[1].t = "CN"
           /\ dirUp => (fetched.info.found /\ fetched.info.ou = <<a.new_ou>>)

\* alice's entry moved from the unit 'Sales, EMEA' to HR
C14_Witness ==
    /\ IsMove
    /\ last.move.success
    /\ last.arg.username = "alice"
    /\ last.arg.new_ou = "HR"
    /\ last.arg.before[2].v = <<"Sales", ",", " EMEA">>
    /\ dirUp

----------------------------------------------------------------------------
(* EmployeeViewSet.ad_info *)

\* mutant: whatever the fetch gave is returned
ad_info_fetched_always(ad_info) == TRUE

\* `if ad_info:`
ad_info_fetched(ad_info) == ad_info.info.found

AdInfoOutcome(req, pk, searchOK) ==
    LET found == EmployeeBy("employee_id", pk)
        employee == CHOOSE e \in found : TRUE
        ad_info == get_user_info(employee.ad_username, None, None, searchOK)
    IN IF found = {}
       THEN Done(req, 404, "Not found", <<>>, NoMove, EmptyDict)
       ELSE IF ad_info_fetched(ad_info)
       THEN Done(req, 200, "", ad_info.calls, NoMove, InfoDict(ad_info.info))
       ELSE Done(req, 500, "Could not fetch AD information", ad_info.calls, NoMove,
                 EmptyDict)

EmployeeViewSet_ad_info(cred, pk, searchOK) ==
    LET req == Request("ad_info", cred, [pk |-> pk])
        denied == IsAuthenticated(cred)
    IN /\ last' = IF denied # 0
                  THEN Done(req, denied, "permission denied", <<>>, NoMove, EmptyDict)
                  ELSE AdInfoOutcome(req, pk, searchOK)
       /\ UNCHANGED <<employees, users, audit, tokens, blacklist, dirUp, dirDN, inflight>>

LoginRequest == \E u \in LoginNames : \E p \in PasswordsFor(u) : LoginView_post(u, p)

AdInfoRequest ==
    \E c \in Creds, id \in EmployeeIds, s \in BOOLEAN : EmployeeViewSet_ad_info(c, id, s)

\* Login and the per-employee directory lookup, while the directory comes and goes.
NextLookup ==
    \/ LoginRequest
    \/ AdInfoRequest
    \/ DirectoryFlips

SpecLookup == Init /\ [][NextLookup]_vars

----------------------------------------------------------------------------
(* Unreachable directory: properties, checked under SpecLookup *)

\* a login whose bind the directory would have accepted did not get a connection
LoginUnreachable ==
    /\ IsLogin
    /\ LoginValid(last.arg.username, last.arg.password)
    /\ DirectoryAccepts(last.arg.username, last.arg.password)
    /\ ~last.calls[1].ok

\* a lookup whose service-account bind did not get a connection
AdInfoUnreachable ==
    /\ last.op = "ad_info"
    /\ last.calls # <<>>
    /\ ~last.calls[1].ok

\* C15 as stated: with the directory unreachable, a login and a per-employee
\* lookup are answered with a server-side error that is not the 'Invalid
\* credentials' answer, after one directory call.
C15_UnreachableIsServerError ==
    (LoginUnreachable \/ AdInfoUnreachable) =>
        /\ last.status = 500
        /\ last.msg # "Invalid credentials"
        /\ Len(last.calls) = 1

\* C15 as amended: with the directory unreachable, the per-employee lookup is
\* answered 500 'Could not fetch AD information' and a login is answered with the
\* 401 'Invalid credentials' of a refused bind, issuing nothing; each made one
\* directory call, the failed bind.
C15_UnreachableOutcomes ==
    /\ AdInfoUnreachable =>
          /\ last.status = 500
          /\ last.msg = "Could not fetch AD information"
          /\ last.calls = <<Call("bind", SvcUser, SvcPassword, FALSE)>>
    /\ LoginUnreachable =>
          /\ last.status = 401
          /\ last.msg = "Invalid credentials"
          /\ last.body = EmptyDict
          /\ last.calls = <<Call("bind", last.arg.username, last.arg.password, FALSE)>>

C15_Witness ==
    /\ AdInfoUnreachable
    /\ last.actor = "alice"
    /\ last.arg.pk = "EMP1"
    /\ last.status = 500

----------------------------------------------------------------------------
(* EmployeeViewSet: create, update, partial_update, sync_ad *)

\* get_permissions: IsAdminUser for create, update, partial_update and destroy,
\* IsAuthenticated for every other action of the viewset
get_permissions(action, cred) ==
    IF action \in {"create", "update", "partial_update", "destroy"}
    THEN IsAdminUser(cred)
    ELSE IsAuthenticated(cred)

\* EmployeeSerializer.is_valid() for a new row: the primary key and the unique
\* column are not taken
EmployeeCreateValid(data) ==
    /\ EmployeeBy("employee_id", data.employee_id) = {}
    /\ EmployeeBy("ad_username", data.ad_username) = {}

EmployeeViewSet_create(cred, data) ==
    LET req == Request("create", cred, [data |-> data])
        denied == get_permissions("create", cred)
    IN /\ IF denied # 0
          THEN /\ last' = Done(req, denied, "permission denied", <<>>, NoMove, EmptyDict)
               /\ UNCHANGED employees
          ELSE IF ~EmployeeCreateValid(data)
          THEN /\ last' = Done(req, 400, "invalid request body", <<>>, NoMove, EmptyDict)
               /\ UNCHANGED employees
          ELSE /\ last' = Done(req, 201, "", <<>>, NoMove, data)
               /\ employees' = employees \cup {data}
       /\ UNCHANGED <<users, audit, tokens, blacklist, dirUp, dirDN, inflight>>

\* columns a request may write (the request keeps employee_id)
EmployeeWritable == {"ad_username", "full_en_name"}

\* the row after serializer.save(): the fields of the request over the instance
EmployeeMerged(instance, data) ==
    [f \in DOMAIN instance |-> IF f \in DOMAIN data THEN data[f] ELSE instance[f]]

\* EmployeeSerializer.is_valid() for an existing row: a PUT carries every
\* field, and the unique column is not taken by another row
EmployeeUpdateValid(instance, data, partial) ==
    /\ partial \/ DOMAIN data = EmployeeWritable
    /\ \A e \in employees \ {instance} :
          e.ad_username # EmployeeMerged(instance, data).ad_username

\* update (PUT, partial = FALSE) and partial_update (PATCH, partial = TRUE)
EmployeeViewSet_update(cred, pk, data, partial) ==
    LET action == IF partial THEN "partial_update" ELSE "update"
        req == Request(action, cred, [pk |-> pk, data |-> data])
        denied == get_permissions(action, cred)
        found == EmployeeBy("employee_id", pk)
        instance == CHOOSE e \in found : TRUE
    IN /\ IF denied # 0
          THEN /\ last' = Done(req, denied, "permission denied", <<>>, NoMove, EmptyDict)
               /\ UNCHANGED employees
          ELSE IF found = {}
          THEN /\ last' = Done(req, 404, "Not found", <<>>, NoMove, EmptyDict)
               /\ UNCHANGED employees
          ELSE IF ~EmployeeUpdateValid(instance, data, partial)
          THEN /\ last' = Done(req, 400, "invalid request body", <<>>, NoMove, EmptyDict)
               /\ UNCHANGED employees
          ELSE /\ last' = Done(req, 200, "", <<>>, NoMove, EmployeeMerged(instance, data))
               /\ employees' = (employees \ {instance}) \cup {EmployeeMerged(instance, data)}
       /\ UNCHANGED <<users, audit, tokens, blacklist, dirUp, dirDN, inflight>>

\* mutant: the staff check of sync_ad is left out
sync_ad_refused_nobody(cred) == IsAuthenticated(cred)

\* permission_classes of the viewset, then `if not request.user.is_staff:`
sync_ad_refused(cred) ==
    IF get_permissions("sync_ad", cred) # 0 THEN get_permissions("sync_ad", cred)
    ELSE IF ~is_staff(RequestUser(cred)) THEN 403 ELSE 0

\* mutant: employees the directory does not know are left out of the results
sync_result_skips_absent(employee, ad_info) ==
    IF ad_info.info.found
    THEN <<[employee_id |-> employee.employee_id, name |-> employee.full_en_name,
            ad_synced |-> TRUE, ad_ou |-> <<ad_info.info.ou>>]>>
    ELSE <<>>

\* what the loop appends for one employee; ad_ou is <<ou>>, or <<>> for None
sync_result(employee, ad_info) ==
    <<[employee_id |-> employee.employee_id, name |-> employee.full_en_name,
       ad_synced |-> ad_info.info.found,
       ad_ou |-> IF ad_info.info.found THEN <<ad_info.info.ou>> ELSE <<>>]>>

\* the loop of sync_ad over the employees as the queryset yields them; failing
\* holds the employees whose search raises
RECURSIVE sync_loop(_, _)
sync_loop(rows, failing) ==
    IF rows = <<>> THEN [results |-> <<>>, calls |-> <<>>]
    ELSE LET employee == Head(rows)
             ad_info == get_user_info(employee.ad_username, None, None,
                                      employee.employee_id \notin failing)
             rest == sync_loop(Tail(rows), failing)
         IN [results |-> sync_result(employee, ad_info) \o rest.results,
             calls |-> ad_info.calls \o rest.calls]

\* Employee.objects.all() has no ordering: the orders the rows may come in
Orderings(rows) ==
    {q \in [1..Cardinality(rows) -> rows] :
        \A i, j \in 1..Cardinality(rows) : q[i] = q[j] => i = j}

\* sync_ad after the refusals; rows is the order the queryset yields the
\* employees in
SyncOutcome(cred, rows, failing) ==
    LET req == Request("sync_ad", cred,
                       [rows |-> rows, failing |-> failing, reachable |-> dirUp])
        out == sync_loop(rows, failing)
    IN Done(req, 200, "", out.calls, NoMove,
            [total_employees |-> Len(rows), sync_results |-> out.results])

EmployeeViewSet_sync_ad(cred, failing) ==
    LET denied == sync_ad_refused(cred)
    IN /\ IF denied # 0
          THEN last' = Done(Request("sync_ad", cred, EmptyDict), denied,
                            IF denied = 403 THEN "Admin access required"
                            ELSE "permission denied", <<>>, NoMove, EmptyDict)
          ELSE \E rows \in Orderings(employees) : last' = SyncOutcome(cred, rows, failing)
       /\ UNCHANGED <<employees, users, audit, tokens, blacklist, dirUp, dirDN, inflight>>

----------------------------------------------------------------------------
(* OUTransferLogViewSet *)

\* get_queryset: every row, or the rows of one employee when the employee_id
\* parameter is given (None: not given)
get_queryset(employee_id) ==
    IF Truthy(employee_id)
    THEN SelectSeq(audit, LAMBDA r : r.employee = employee_id)
    ELSE audit

\* list after the permission check; rows is the page in the order the
\* database yielded it.  Serializing a row builds the fields of
\* OutTransferLogSerializer.
ListOutcome(req, rows) ==
    IF rows # <<>> /\ SerializerRaises(OutTransferLogSerializerFields,
                                       OutTransferLogSerializerDeclared,
                                       OutTransferLogFields)
    THEN Done(req, 500, "ImproperlyConfigured", <<>>, NoMove, EmptyDict)
    ELSE Done(req, 200, "", <<>>, NoMove, rows)

\* list.  The queryset has no ordering (no order_by, no Meta.ordering), so the
\* database may yield its rows in any order.
OUTransferLogViewSet_list(cred, employee_id) ==
    LET req == Request("list", cred, [employee_id |-> employee_id])
        denied == IsAdminUser(cred)
        qs == get_queryset(employee_id)
    IN /\ IF denied # 0
          THEN last' = Done(req, denied, "permission denied", <<>>, NoMove, EmptyDict)
          ELSE \E rows \in Orderings({qs[i] : i \in 1..Len(qs)}) :
                  last' = ListOutcome(req, rows)
       /\ UNCHANGED <<employees, users, audit, tokens, blacklist, dirUp, dirDN, inflight>>

OUTransferLogViewSet_retrieve(cred, pk) ==
    LET req == Request("retrieve", cred, [pk |-> pk])
        denied == IsAdminUser(cred)
        qs == get_queryset(None)
        found == {i \in 1..Len(qs) : qs[i].id = pk}
    IN /\ last' = IF denied # 0
                  THEN Done(req, denied, "permission denied", <<>>, NoMove, EmptyDict)
                  ELSE IF found = {}
                  THEN Done(req, 404, "Not found", <<>>, NoMove, EmptyDict)
                  ELSE IF SerializerRaises(OutTransferLogSerializerFields,
                                           OutTransferLogSerializerDeclared,
                                           OutTransferLogFields)
                  THEN Done(req, 500, "ImproperlyConfigured", <<>>, NoMove, EmptyDict)
                  ELSE Done(req, 200, "", <<>>, NoMove, qs[CHOOSE i \in found : TRUE])
       /\ UNCHANGED <<employees, users, audit, tokens, blacklist, dirUp, dirDN, inflight>>

----------------------------------------------------------------------------
(* The admin endpoints *)

\* a row of OutTransferLog as the table holds it: the i-th row inserted; rows
\* alternate between EMP1 and EMP3, two to a day
AuditRow(i) ==
    [id |-> i,
     employee |-> IF i % 2 = 1 THEN "EMP1" ELSE "EMP3",
     from_ou |-> <<"Sales">>, to_ou |-> "HR", tranferred_by |-> "root",
     transfer_date |-> (i + 1) \div 2, note |-> ""]

NewEmployees == {Employee("EMP4", "dave", "Dave D"), Employee("EMP1", "alice", "Alice A")}

PutData == {[ad_username |-> "alice", full_en_name |-> "Alice B"],
            [ad_username |-> "root", full_en_name |-> "Alice B"]}

PatchData == {[full_en_name |-> "Alice B"]}

CreateRequest == \E c \in Creds, d \in NewEmployees : EmployeeViewSet_create(c, d)

UpdateRequest ==
    \/ \E c \in Creds, id \in {"EMP1", "EMP9"}, d \in PutData :
          EmployeeViewSet_update(c, id, d, FALSE)
    \/ \E c \in Creds, id \in {"EMP1", "EMP9"}, d \in PutData \cup PatchData :
          EmployeeViewSet_update(c, id, d, TRUE)

ListRequest ==
    \E c \in Creds, id \in {None, "EMP1", "EMP3"} : OUTransferLogViewSet_list(c, id)

RetrieveRequest == \E c \in Creds, pk \in 1..2 : OUTransferLogViewSet_retrieve(c, pk)

\* a transfer of EMP1 to HR with the admin's right password
AdminTransferRequest ==
    \E c \in Creds, mv \in {"ok", "rejected"} :
       OUTransferView_post(c, "EMP1", [new_ou |-> "HR", admin_password |-> "pr", notes |-> ""],
                           TRUE, TRUE, mv)

\* The audit log with rows in it, written to the table outside the views of
\* this application: credential 1 is root's (staff), credential 2 is alice's.
InitAudit ==
    /\ employees = Roster
    /\ users = <<[username |-> "root", is_staff |-> TRUE],
                 [username |-> "alice", is_staff |-> FALSE]>>
    /\ \E n \in 0..MaxAudit : audit = [i \in 1..n |-> AuditRow(i)]
    /\ tokens = <<[user |-> "root", accessLive |-> TRUE],
                  [user |-> "alice", accessLive |-> TRUE]>>
    /\ blacklist = <<>>
    /\ dirUp = TRUE
    /\ dirDN = [alice |-> <<RDN("CN", "alice"), RDN("OU", "Sales"), RDN("OU", "New")>> \o base_dn,
                root  |-> <<RDN("CN", "root"), RDN("CN", "Users")>> \o base_dn,
                ghost |-> <<RDN("CN", "ghost"), RDN("OU", "IT"), RDN("OU", "New")>> \o base_dn]
    /\ last = Idle
    /\ inflight = <<>>

NextAudit ==
    \/ ListRequest
    \/ RetrieveRequest
    \/ DestroyRequest
    \/ UpdateRequest
    \/ AdminTransferRequest

SpecAudit == InitAudit /\ [][NextAudit]_vars

----------------------------------------------------------------------------
(* Audit log: properties, checked under SpecAudit *)

\* rows in the reverse of the order they were inserted in
MostRecentFirst(rows) == [i \in 1..Len(rows) |-> rows[Len(rows) + 1 - i]]

\* C16: a listing of the audit log by an admin is answered with the records most
\* recent first: those of the employee named by the employee_id parameter when
\* it is given, all of them when it is not.
C16_ListingMostRecentFirst ==
    (last.op = "list" /\ last.status \notin {401, 403}) =>
        /\ last.status = 200
        /\ last.body = MostRecentFirst(get_queryset(last.arg.employee_id))

\* C17: a step of any endpoint leaves every audit row as it was, except that
\* the rows of an employee go when that employee is deleted; a row that was
\* not there before the step was made by a transfer request.
C17_AuditRecordsImmutable ==
    [][/\ \A i \in 1..Len(audit) :
             \/ \E j \in 1..Len(audit') : audit'[j] = audit[i]
             \/ /\ last'.op = "destroy"
                /\ last'.status = 204
                /\ last'.arg.pk = audit[i].employee
                /\ EmployeeBy("employee_id", audit[i].employee) \ employees' # {}
       /\ \A j \in 1..Len(audit') :
             \/ \E i \in 1..Len(audit) : audit[i] = audit'[j]
             \/ last'.op = "transfer"]_vars

\* EMP1 was deleted, its audit rows went with it and the row of EMP3 is as it was
C17_Witness ==
    /\ last.op = "destroy"
    /\ last.status = 204
    /\ last.arg.pk = "EMP1"
    /\ last.created = -2
    /\ audit = <<AuditRow(2)>>

----------------------------------------------------------------------------
(* The admin-gated endpoints called by staff, by other users and by nobody *)

SyncRequest ==
    \E c \in Creds, failing \in {{}, {"EMP2"}} : EmployeeViewSet_sync_ad(c, failing)

NextStaff ==
    \/ CreateRequest
    \/ UpdateRequest
    \/ DestroyRequest
    \/ SyncRequest
    \/ AdminTransferRequest
    \/ ListRequest
    \/ RetrieveRequest
    \/ DirectoryFlips

SpecStaff == InitSessions /\ [][NextStaff]_vars

IsSync == last.op = "sync_ad" /\ last.status = 200

\* the bind and the search of the i-th fetch of a sync whose binds succeeded
SyncFetchCalls(i) == SubSeq(last.calls, 3 * i - 2, 3 * i)

\* C18: a bulk sync that ran made one fetch per employee, one after the other,
\* and returned one result per employee in the order the employees were
\* fetched in, total_employees being their number; a result has ad_synced true
\* exactly when that employee's fetch returned attributes, and ad_ou is the OU
\* fetched when it did and null when it did not; the sync changes no table and
\* no directory entry.
C18_SyncOneFetchPerEmployee ==
    /\ [](IsSync =>
            LET rows == last.arg.rows
                results == last.body.sync_results
                n == Len(rows)
                binds == {i \in 1..Len(last.calls) : last.calls[i].op = "bind"}
                searches == {i \in 1..Len(last.calls) : last.calls[i].op = "search"}
            IN /\ {rows[i] : i \in 1..n} = employees
               /\ n = Cardinality(employees)
               /\ Len(results) = n
               /\ last.body.total_employees = Len(results)
               /\ Cardinality(binds) = n
               /\ Cardinality(searches) = IF last.arg.reachable THEN n ELSE 0
               /\ \A i \in 1..n :
                     LET u == rows[i].ad_username
                         fetched == /\ last.arg.reachable
                                    /\ rows[i].employee_id \notin last.arg.failing
                                    /\ u \in DOMAIN dirDN
                     IN /\ results[i].employee_id = rows[i].employee_id
                        /\ results[i].name = rows[i].full_en_name
                        /\ results[i].ad_synced = fetched
                        /\ last.arg.reachable =>
                              /\ SyncFetchCalls(i)[1].op = "bind"
                              /\ SyncFetchCalls(i)[2] = Call("search", SvcUser, SvcPassword, fetched)
                              /\ SyncFetchCalls(i)[3].op = "unbind"
                        /\ results[i].ad_ou =
                              IF fetched THEN <<extract_ou(dn_str(dirDN[u]))>> ELSE <<>>)
    /\ [][(last' # last /\ last'.op = "sync_ad") =>
             UNCHANGED <<employees, audit, dirDN, users>>]_vars

\* the directory knows alice and root, not bob, and the search for root failed
C18_Witness ==
    /\ IsSync
    /\ Len(last.body.sync_results) = 3
    /\ last.arg.failing = {"EMP2"}
    /\ \E i, j, k \in 1..3 :
          /\ last.body.sync_results[i].ad_ou = <<<<"Sales">>>>
          /\ last.body.sync_results[j].employee_id = "EMP2"
          /\ ~last.body.sync_results[j].ad_synced
          /\ last.body.sync_results[k].employee_id = "EMP3"
          /\ last.body.sync_results[k].ad_ou = <<>>

\* the operations that are for staff
AdminOps ==
    {"create", "update", "partial_update", "destroy", "sync_ad", "transfer", "list",
     "retrieve"}

\* C19: a request for a staff operation that comes with the credential of a
\* user who is not staff, or with none, is refused (403, 401): it makes no
\* directory call, runs no move, and leaves the employees, the audit rows and
\* the directory as they were.
C19_NonStaffRefused ==
    /\ []((last.op \in AdminOps /\ ~is_staff(last.actor)) =>
            /\ last.status \in {401, 403}
            /\ last.calls = <<>>
            /\ ~last.move.ran
            /\ last.created = 0
            /\ last.body = EmptyDict)
    /\ [][(last' # last /\ last'.op \in AdminOps /\ ~is_staff(last'.actor)) =>
             UNCHANGED <<employees, audit, dirDN>>]_vars

\* alice, who is not staff, asked for the bulk sync
C19_Witness ==
    /\ last.op = "sync_ad"
    /\ last.actor = "alice"
    /\ last.status = 403
    /\ last.msg = "Admin access required"

----------------------------------------------------------------------------
(* OU transfers handled by concurrent workers.  The fetch of the current
   attributes and the move are two exchanges with the directory; other
   workers' exchanges may come between them. *)

\* OUTransferView.post up to `if not current_info:` (the fetch included)
TransferFetch(w, cred, employee_id, data, s1) ==
    LET req == Request("transfer", cred, [employee_id |-> employee_id, data |-> data])
        denied == IsAdminUser(cred)
        found == EmployeeBy("employee_id", employee_id)
        employee == CHOOSE e \in found : TRUE
        current_info == get_user_info(employee.ad_username, None, None, s1)
    IN /\ inflight[w] = Free
       /\ IF denied # 0
          THEN /\ last' = Done(req, denied, "permission denied", <<>>, NoMove, EmptyDict)
               /\ UNCHANGED inflight
          ELSE IF found = {}
          THEN /\ last' = Done(req, 404, "Employee not found", <<>>, NoMove, EmptyDict)
               /\ UNCHANGED inflight
          ELSE IF ~TransferOURequestValid(data)
          THEN /\ last' = Done(req, 400, "invalid request body", <<>>, NoMove, EmptyDict)
               /\ UNCHANGED inflight
          ELSE IF fetch_failed(current_info)
          THEN /\ last' = Done(req, 500, "Could not fetch current AD information",
                               current_info.calls, NoMove, EmptyDict)
               /\ UNCHANGED inflight
          ELSE /\ inflight' = [inflight EXCEPT ![w] =
                                  [op |-> "transfer", cred |-> cred, employee |-> employee,
                                   data |-> data, current_info |-> current_info]]
               /\ UNCHANGED last
       /\ UNCHANGED <<employees, users, audit, tokens, blacklist, dirUp, dirDN>>

\* OUTransferView.post from `current_ou = current_info['ou']` to the response.
\* The request left in `last` also says which from_ou the handler gave to
\* OutTransferLog.objects.create and which OU the entry was in when the move
\* began.
TransferMove(w, s2, mv) ==
    LET f == inflight[w]
        req == Request("transfer", f.cred,
                       [employee_id |-> f.employee.employee_id, data |-> f.data,
                        from_ou |-> f.current_info.info.ou,
                        ou_at_move |-> extract_ou(dn_str(dirDN[f.employee.ad_username]))])
        out == TransferAfterFetch(req, f.employee, f.data, f.current_info, s2, mv)
    IN /\ inflight[w].op = "transfer"
       /\ last' = [out.done EXCEPT !.created = Len(out.rows) - Len(audit)]
       /\ dirDN' = out.dn
       /\ audit' = out.rows
       /\ inflight' = [inflight EXCEPT ![w] = Free]
       /\ UNCHANGED <<employees, users, tokens, blacklist, dirUp>>

RaceTransferData == [new_ou : {"HR", "IT"}, admin_password : {"pr"}, notes : {""}]

NextTransferRace ==
    \/ \E w \in Workers, c \in Creds, id \in {"EMP1", "EMP9"}, d \in RaceTransferData,
          s1 \in BOOLEAN : TransferFetch(w, c, id, d, s1)
    \/ \E w \in Workers, s2 \in BOOLEAN, mv \in MoveOutcomes : TransferMove(w, s2, mv)

SpecTransferRace == InitRace /\ [][NextTransferRace]_vars

----------------------------------------------------------------------------
(* Concurrent OU transfers: property, checked under SpecTransferRace *)

\* C20: the from_ou that a transfer whose move was applied records (hands to
\* OutTransferLog.objects.create) is the OU the entry was in when that move
\* began.
C20_FromOUNotStale ==
    (IsTransfer /\ last.move.success) => last.arg.from_ou = last.arg.ou_at_move

----------------------------------------------------------------------------
(* Identities and logins that are refused: property, checked under SpecAuth *)

\* C21: a login that ends with 401 'Invalid credentials' or with 404 'Employee
\* record not found in database' leaves the identity rows exactly as they were
\* and issues no token pair.
C21_RefusedLoginCreatesNothing ==
    /\ []((IsLogin /\ last.status \in {401, 404}) => last.body = EmptyDict)
    /\ [][(IsLogin' /\ last'.status \in {401, 404}) =>
             /\ users' = users
             /\ Len(tokens') = Len(tokens)
             /\ \A t \in TokenIds : tokens'[t].user = tokens[t].user]_vars

\* ghost passed the directory, has no Employee row, and has neither an identity
\* row nor a token pair
C21_Witness ==
    /\ IsLogin
    /\ last.arg.username = "ghost"
    /\ last.status = 404
    /\ UserRows("ghost") = {}
    /\ \A t \in TokenIds : tokens[t].user # "ghost"
    /\ Len(users) = 2

----------------------------------------------------------------------------
(* ADAuthenticationBackend.authenticate *)

ADAuthenticationBackend_authenticate(username, password) ==
    LET req == [op |-> "backend_authenticate", cred |-> NoCred, actor |-> None,
                arg |-> [username |-> username, password |-> password]]
        ok == authenticate_user(username, password)
    IN /\ IF username = "" \/ password = ""
          THEN /\ last' = Done(req, 0, "", <<>>, NoMove, [user |-> None])
               /\ UNCHANGED users
          ELSE IF ok
          THEN /\ last' = Done(req, 0, "", authenticate_user_calls(username, password, ok),
                               NoMove, [user |-> username])
               /\ users' = get_or_create(users, username)
          ELSE /\ last' = Done(req, 0, "", authenticate_user_calls(username, password, ok),
                               NoMove, [user |-> None])
               /\ UNCHANGED users
       /\ UNCHANGED <<employees, audit, tokens, blacklist, dirUp, dirDN, inflight>>

----------------------------------------------------------------------------
(* Every endpoint and the authentication backend, from the state after
   construction: who asks varies, the request bodies are few. *)

BackendRequest ==
    \E u \in {"alice", ""}, p \in {"pa", "bad", ""} :
       ADAuthenticationBackend_authenticate(u, p)

SessionRequest ==
    \/ \E u \in {"alice", "root", "ghost"} : LoginView_post(u, DirPassword[u])
    \/ \E c \in Creds : LogoutView_post(c, c)
    \/ \E t \in Creds : TokenRefreshView_post(t)
    \/ \E c \in Creds : EmployeeProfileView_get(c, TRUE)

EmployeeRequest ==
    \/ \E c \in Creds : EmployeeViewSet_ad_info(c, "EMP1", TRUE)
    \/ \E c \in Creds : EmployeeViewSet_create(c, Employee("EMP1", "alice", "Alice A"))
    \/ \E c \in Creds, partial \in BOOLEAN :
          EmployeeViewSet_update(c, "EMP1",
                                 [ad_username |-> "alice", full_en_name |-> "Alice A"], partial)
    \/ \E c \in Creds : EmployeeViewSet_destroy(c, "EMP9")
    \/ \E c \in Creds : EmployeeViewSet_sync_ad(c, {})

OUTransferRequest ==
    \/ \E c \in Creds :
          OUTransferView_post(c, "EMP1", [new_ou |-> "HR", admin_password |-> "pr", notes |-> ""],
                              TRUE, TRUE, "ok")
    \/ \E c \in Creds : OUTransferLogViewSet_list(c, None)
    \/ \E c \in Creds : OUTransferLogViewSet_retrieve(c, 1)

NextIdentity ==
    \/ BackendRequest
    \/ SessionRequest
    \/ EmployeeRequest
    \/ OUTransferRequest

SpecIdentity == Init /\ [][NextIdentity]_vars

----------------------------------------------------------------------------
(* The administrative flag: property, checked under SpecIdentity *)

\* the identities that were staff before any request
StaffAtStart == {"root"}

\* C22: every identity row that a login (or the authentication backend) adds
\* has is_staff false; no step of any endpoint changes or removes a row that
\* exists, its is_staff included; so only the identities that were staff
\* before any request are staff, and a staff operation asked for by any other
\* identity is refused with 403 before a directory call.
C22_LoginIdentityNeverStaff ==
    /\ [][/\ UsersKept
          /\ \A j \in (Len(users) + 1)..Len(users') : ~users'[j].is_staff]_vars
    /\ [](\A i \in 1..Len(users) :
             users[i].is_staff => users[i].username \in StaffAtStart)
    /\ []((last.op \in AdminOps /\ last.actor \notin StaffAtStart \cup {None}) =>
            /\ last.status = 403
            /\ last.calls = <<>>
            /\ ~last.move.ran)

\* alice, whose identity a login created, holds a token pair and asked for an
\* OU transfer
C22_Witness ==
    /\ last.op = "transfer"
    /\ last.actor = "alice"
    /\ last.cred \in TokenIds
    /\ tokens[last.cred].user = "alice"
    /\ Cardinality(UserRows("alice")) = 1
    /\ ~is_staff("alice")
    /\ last.status = 403

====
